---------------------------- MODULE Spec2Model ----------------------------
(***************************************************************************)
(* The quiz player of the quiz-hosting application: the QuizPlayer         *)
(* component (src/unnamed/part_002, lines 312-559) together with the       *)
(* GET /api/quizzes/:id route it loads its quiz from (src/server.ts,       *)
(* lines 82-87).                                                           *)
(*                                                                         *)
(* The React state of the component is the state of the model.  A handler  *)
(* runs to completion and React commits the re-render and its effect       *)
(* before the next event is handled, so one action is: handler, commit,    *)
(* timer effect (and the handleAnswer(null) the effect may call, with the  *)
(* commit that follows).  Handlers read the values captured by the render  *)
(* that created them.  The only handlers of an earlier render that stay    *)
(* on the page are those of the question view while AnimatePresence plays  *)
(* its exit animation (part_002 lines 478-511).                            *)
(***************************************************************************)
EXTENDS Integers, Sequences, FiniteSets, TLC

(***************************************************************************)
(* Bounds of the model.                                                    *)
(***************************************************************************)
\* Longest quiz drawn in Init.
MaxQuestions == 2

\* Clicks on the buttons of an exiting question view, per exit animation.
MaxStaleClicks == 2

\* Largest id the quizzes table hands out.
MaxId == 3

\* Longest draft of the quiz creator.
MaxDraft == 3

(***************************************************************************)
(* Program constants.                                                      *)
(***************************************************************************)
\* useState(-1): "-1 is lobby"
LobbyIdx == -1

\* the fallback of `time_limit || 20`
DefaultTimeLimit == 20

\* Math.round(1000 * ...) + 500
PointsScale == 1000

PointsFloor == 500

\* `quizCount.count <= 2` of the resetting seed block
ResetThreshold == 2

\* the option buttons of the question view
Options == {"A", "B", "C", "D"}

\* selectedAnswer = null
NoAnswer == "null"

\* The questions a stored quiz is drawn from: correct_option is one of the
\* four letters, time_limit an integer other than 0 (POST /api/quizzes
\* stores `q.time_limit || 20`, which replaces a numeric 0 and keeps a
\* negative number; the seed rows take the column default 20).
QuestionChoices ==
    { [correct_option |-> "B", time_limit |-> 3],
      [correct_option |-> "C", time_limit |-> 2],
      [correct_option |-> "A", time_limit |-> -1] }

\* The ids of the stored quizzes, and the ids a /play/:id route may carry
\* (one of them the id of no quiz).
StoredIds == {1}

RouteIds == {1, 2}

RECURSIVE SeqsUpTo(_, _)
SeqsUpTo(S, n) ==
    IF n = 0 THEN { <<>> }
    ELSE LET shorter == SeqsUpTo(S, n - 1)
         IN  shorter \cup { Append(s, x) : s \in shorter, x \in S }

QuizChoices == SeqsUpTo(QuestionChoices, MaxQuestions)

(***************************************************************************)
(* State.                                                                  *)
(***************************************************************************)
VARIABLES
    db,                  \* the questions table, by quiz id
    routeId,             \* useParams().id
    fetchState,          \* "pending", "resolved" or "rejected"
    quiz,                \* useState<Quiz | null>(null)
    currentQuestionIdx,  \* useState(-1)
    score,               \* useState(0)
    timeLeft,            \* useState(0)
    selectedAnswer,      \* useState<string | null>(null)
    showResult,          \* useState(false)
    isGameOver,          \* useState(false)
    intervals,           \* the intervals set and not yet cleared
    timer,               \* the interval the last run of the timer effect set
    exiting,             \* the question view AnimatePresence is animating out
    crashed,             \* a render threw: React unmounted the component
    last,                \* the last operation and what it read (history)
    seq,                 \* sqlite_sequence of the quizzes table (AUTOINCREMENT)
    running,             \* the server process is up
    build,               \* the version of the server's startup code
    request,             \* the body of the last POST /api/quizzes (history)
    response,            \* the response to the last POST /api/quizzes
    draft,               \* QuizCreator: useState<Partial<Question>[]>([...])
    title,               \* QuizCreator: useState('')
    submitted            \* the body QuizCreator.handleSubmit posted

vars == << db, routeId, fetchState, quiz, currentQuestionIdx, score, timeLeft,
           selectedAnswer, showResult, isGameOver, intervals, timer, exiting,
           crashed, last, seq, running, build, request, response, draft,
           title, submitted >>

\* The state of the server process other than the tables.
serverVars == << seq, running, build, request, response >>

\* The state of the QuizCreator component.
creatorVars == << draft, title, submitted >>

\* quiz === null
NullQuiz == [loaded |-> FALSE, hasQuestions |-> FALSE, questions |-> << >>]

\* `timer` undefined: clearInterval(undefined) clears nothing
NoTimer == [set |-> FALSE, q |-> LobbyIdx, t |-> 0]

\* nothing is animating out
NoExit == [active |-> FALSE, idx |-> LobbyIdx, timeLeft |-> 0, clicks |-> 0]

Op(name, option, q, t) == [op |-> name, option |-> option, q |-> q, t |-> t, timeout |-> FALSE]

(***************************************************************************)
(* GET /api/quizzes/:id                                                    *)
(***************************************************************************)
GetQuizById(d, i) ==
    IF i \notin DOMAIN d
    THEN [status |-> 404, hasQuestions |-> FALSE, questions |-> << >>]
    ELSE [status |-> 200, hasQuestions |-> TRUE, questions |-> d[i]]

(***************************************************************************)
(* Helpers of the component.                                               *)
(***************************************************************************)
\* quiz?.questions?.[i] is defined
HasQuestion(qz, i) ==
    /\ qz.loaded
    /\ qz.hasQuestions
    /\ i >= 0
    /\ i < Len(qz.questions)

\* quiz.questions[i]: the array's index 0 is the sequence's index 1
QuestionAt(qz, i) == qz.questions[i + 1]

\* x || 20, with x = 0 standing for every falsy value (undefined included)
OrDefault(x) == IF x = 0 THEN DefaultTimeLimit ELSE x

\* quiz?.questions?.[i]?.time_limit, 0 standing for undefined
TimeLimitAt(qz, i) == IF HasQuestion(qz, i) THEN QuestionAt(qz, i).time_limit ELSE 0

\* Math.floor in the place of Math.round.
RoundDown(num, den) ==
    IF den > 0 THEN num \div den
    ELSE (0 - num) \div (0 - den)

\* Math.round(num / den): the nearest integer, a half rounded up
Round(num, den) ==
    IF den > 0 THEN (2 * num + den) \div (2 * den)
    ELSE (2 * (0 - num) + (0 - den)) \div (2 * (0 - den))

\* Math.round(1000 * (timeLeft / limit)) + 500
Points(t, limit) == Round(PointsScale * t, limit) + PointsFloor

(***************************************************************************)
(* The component's state as one value: what a render captures, and what a  *)
(* handler is applied to.                                                  *)
(***************************************************************************)
Cur ==
    [ currentQuestionIdx |-> currentQuestionIdx,
      score              |-> score,
      timeLeft           |-> timeLeft,
      selectedAnswer     |-> selectedAnswer,
      showResult         |-> showResult,
      isGameOver         |-> isGameOver,
      intervals          |-> intervals,
      timer              |-> timer,
      exiting            |-> exiting,
      crashed            |-> crashed ]

Assign(st) ==
    /\ currentQuestionIdx' = st.currentQuestionIdx
    /\ score' = st.score
    /\ timeLeft' = st.timeLeft
    /\ selectedAnswer' = st.selectedAnswer
    /\ showResult' = st.showResult
    /\ isGameOver' = st.isGameOver
    /\ intervals' = st.intervals
    /\ timer' = st.timer
    /\ exiting' = st.exiting
    /\ crashed' = st.crashed

\* The handlers of the exiting question view: those of the last render that
\* showed it, in which showResult was false.
ExitClosure(st) ==
    [st EXCEPT !.currentQuestionIdx = st.exiting.idx,
               !.timeLeft = st.exiting.timeLeft,
               !.showResult = FALSE]

(***************************************************************************)
(* The handlers.  `st` is the state the updates are applied to, `cl` the   *)
(* render whose values the handler captured, `qz` the quiz of that render. *)
(***************************************************************************)
\* startQuiz that always takes the default time limit.
StartQuizDefaultTime(st, qz) ==
    [st EXCEPT !.currentQuestionIdx = 0,
               !.timeLeft = DefaultTimeLimit]

\* startQuiz
StartQuizState(st, qz) ==
    [st EXCEPT !.currentQuestionIdx = 0,
               !.timeLeft = OrDefault(TimeLimitAt(qz, 0))]

\* option === currentQuestion?.correct_option
IsCorrect(qz, i, option) ==
    /\ HasQuestion(qz, i)
    /\ option = QuestionAt(qz, i).correct_option

\* handleAnswer without the comparison with correct_option.
HandleAnswerAlwaysAwards(st, cl, qz, option) ==
    IF cl.showResult THEN st
    ELSE [st EXCEPT
            !.selectedAnswer = option,
            !.showResult = TRUE,
            !.score = @ + Points(cl.timeLeft,
                                 OrDefault(TimeLimitAt(qz, cl.currentQuestionIdx)))]

\* handleAnswer
HandleAnswer(st, cl, qz, option) ==
    IF cl.showResult THEN st
    ELSE [st EXCEPT
            !.selectedAnswer = option,
            !.showResult = TRUE,
            !.score = IF IsCorrect(qz, cl.currentQuestionIdx, option)
                      THEN @ + Points(cl.timeLeft,
                                      OrDefault(TimeLimitAt(qz, cl.currentQuestionIdx)))
                      ELSE @]

\* nextQuestion that starts over after the last question.
NextQuestionWrapsAround(st, cl, qz) ==
    IF ~(qz.loaded /\ qz.hasQuestions) THEN st
    ELSE IF cl.currentQuestionIdx < Len(qz.questions) - 1
    THEN [st EXCEPT !.currentQuestionIdx = cl.currentQuestionIdx + 1,
                    !.timeLeft = QuestionAt(qz, cl.currentQuestionIdx + 1).time_limit,
                    !.selectedAnswer = NoAnswer,
                    !.showResult = FALSE]
    ELSE [st EXCEPT !.currentQuestionIdx = 0,
                    !.timeLeft = QuestionAt(qz, 0).time_limit,
                    !.selectedAnswer = NoAnswer,
                    !.showResult = FALSE]

\* nextQuestion without setSelectedAnswer(null).
NextQuestionKeepsAnswer(st, cl, qz) ==
    IF ~(qz.loaded /\ qz.hasQuestions) THEN st
    ELSE IF cl.currentQuestionIdx < Len(qz.questions) - 1
    THEN [st EXCEPT !.currentQuestionIdx = cl.currentQuestionIdx + 1,
                    !.timeLeft = QuestionAt(qz, cl.currentQuestionIdx + 1).time_limit,
                    !.showResult = FALSE]
    ELSE [st EXCEPT !.isGameOver = TRUE]

\* nextQuestion
NextQuestionState(st, cl, qz) ==
    IF ~(qz.loaded /\ qz.hasQuestions) THEN st
    ELSE IF cl.currentQuestionIdx < Len(qz.questions) - 1
    THEN [st EXCEPT !.currentQuestionIdx = cl.currentQuestionIdx + 1,
                    !.timeLeft = QuestionAt(qz, cl.currentQuestionIdx + 1).time_limit,
                    !.selectedAnswer = NoAnswer,
                    !.showResult = FALSE]
    ELSE [st EXCEPT !.isGameOver = TRUE]

(***************************************************************************)
(* Rendering and the timer effect.                                         *)
(***************************************************************************)
\* The render reads quiz.questions![currentQuestionIdx] and then a field of
\* it: a TypeError when the quiz has no questions array or no such question.
RenderThrows(st, qz) ==
    /\ qz.loaded
    /\ st.currentQuestionIdx # LobbyIdx
    /\ ~st.isGameOver
    /\ ~HasQuestion(qz, st.currentQuestionIdx)

\* The effect's dependencies [timeLeft, currentQuestionIdx, showResult, isGameOver].
Deps(st) == << st.timeLeft, st.currentQuestionIdx, st.showResult, st.isGameOver >>

\* The timer effect without the test of showResult: it counts on in Result.
TimerEffectIgnoresResult(st) ==
    IF st.currentQuestionIdx >= 0 /\ ~st.isGameOver /\ st.timeLeft > 0
    THEN "arm"
    ELSE IF st.timeLeft = 0 /\ st.currentQuestionIdx >= 0 /\ ~st.showResult /\ ~st.isGameOver
    THEN "timeout"
    ELSE "none"

\* The timer effect without its else-branch: no handleAnswer(null) at 0.
TimerEffectNoTimeout(st) ==
    IF st.currentQuestionIdx >= 0 /\ ~st.showResult /\ ~st.isGameOver /\ st.timeLeft > 0
    THEN "arm"
    ELSE "none"

\* The timer effect with timeLeft >= 0 in the place of timeLeft > 0.
TimerEffectArmsAtZero(st) ==
    IF st.currentQuestionIdx >= 0 /\ ~st.showResult /\ ~st.isGameOver /\ st.timeLeft >= 0
    THEN "arm"
    ELSE "none"

\* What the body of the timer effect does in a render of st.
TimerEffect(st) ==
    IF st.currentQuestionIdx >= 0 /\ ~st.showResult /\ ~st.isGameOver /\ st.timeLeft > 0
    THEN "arm"
    ELSE IF st.timeLeft = 0 /\ st.currentQuestionIdx >= 0 /\ ~st.showResult /\ ~st.isGameOver
    THEN "timeout"
    ELSE "none"

\* An effect that returns no cleanup: the interval is never cleared.
CleanupKeepsInterval(st) == [st EXCEPT !.timer = NoTimer]

\* return () => clearInterval(timer)
Cleanup(st) ==
    [st EXCEPT !.intervals = IF st.timer.set THEN @ \ {st.timer} ELSE @,
               !.timer = NoTimer]

\* timer = setInterval(() => setTimeLeft(prev => prev - 1), 1000)
Arm(st) ==
    LET iv == [set |-> TRUE, q |-> st.currentQuestionIdx, t |-> st.timeLeft]
    IN  [st EXCEPT !.intervals = @ \cup {iv}, !.timer = iv]

\* The question view under <AnimatePresence mode="wait">: when showResult
\* turns true the view of the previous render stays mounted, with that
\* render's handlers, until its exit animation ends; the result view is
\* mounted after that.  The result view has no exit animation.
Presence(prev, st) ==
    IF st.isGameOver \/ st.currentQuestionIdx = LobbyIdx THEN NoExit
    ELSE IF ~prev.showResult /\ st.showResult /\ prev.currentQuestionIdx >= 0
    THEN [active |-> TRUE, idx |-> prev.currentQuestionIdx,
          timeLeft |-> prev.timeLeft, clicks |-> 0]
    ELSE IF ~st.showResult THEN NoExit
    ELSE st.exiting

\* One commit: the render of st after the render of prev, the cleanup of the
\* previous effect and the new run of the effect when a dependency changed.
\* A render that throws unmounts the component, which runs the cleanup.
Commit(prev, st, qz) ==
    IF RenderThrows(st, qz)
    THEN [Cleanup(st) EXCEPT !.crashed = TRUE, !.exiting = NoExit]
    ELSE LET shown == [st EXCEPT !.exiting = Presence(prev, st)]
         IN  IF Deps(prev) = Deps(st) THEN shown
             ELSE IF TimerEffect(st) = "arm" THEN Arm(Cleanup(shown))
             ELSE Cleanup(shown)

\* The commit of st and, when its effect calls handleAnswer(null), the
\* commit of what that call sets.
Settle(prev, st, qz) ==
    LET c1 == Commit(prev, st, qz)
    IN  IF ~c1.crashed /\ Deps(prev) # Deps(st) /\ TimerEffect(st) = "timeout"
        THEN Commit(c1, HandleAnswer(c1, c1, qz, NoAnswer), qz)
        ELSE c1

(***************************************************************************)
(* The views: which handlers are on the page.                              *)
(***************************************************************************)
\* if (!quiz) return loading
Loading == ~quiz.loaded

LobbyView == ~crashed /\ quiz.loaded /\ currentQuestionIdx = LobbyIdx

GameOverView == ~crashed /\ quiz.loaded /\ currentQuestionIdx # LobbyIdx /\ isGameOver

QuestionView ==
    /\ ~crashed /\ quiz.loaded
    /\ currentQuestionIdx # LobbyIdx /\ ~isGameOver /\ ~showResult

ResultView ==
    /\ ~crashed /\ quiz.loaded
    /\ currentQuestionIdx # LobbyIdx /\ ~isGameOver /\ showResult
    /\ ~exiting.active

ExitingView == ~crashed /\ exiting.active

(***************************************************************************)
(* Initial state and actions.                                              *)
(***************************************************************************)
\* QuizPlayer before its first effect has run.
PlayerInit ==
    /\ fetchState = "pending"
    /\ quiz = NullQuiz
    /\ currentQuestionIdx = LobbyIdx
    /\ score = 0
    /\ timeLeft = 0
    /\ selectedAnswer = NoAnswer
    /\ showResult = FALSE
    /\ isGameOver = FALSE
    /\ intervals = {}
    /\ timer = NoTimer
    /\ exiting = NoExit
    /\ crashed = FALSE
    /\ last = Op("init", NoAnswer, LobbyIdx, 0)

\* No request has been made.
NoBody == [sent |-> FALSE, hasTitle |-> FALSE, hasQuestions |-> FALSE, questions |-> << >>]

NoResponse == [status |-> 0, id |-> 0]

\* handleSubmit has not run.
NoSubmission == [sent |-> FALSE, title |-> "", questions |-> << >>]

\* The question QuizCreator starts with and addQuestion appends.
DefaultQuestion == [question_text |-> "", correct_option |-> "A", time_limit |-> DefaultTimeLimit]

\* QuizCreator as mounted.
CreatorInit ==
    /\ draft = << DefaultQuestion >>
    /\ title = ""
    /\ submitted = NoSubmission

\* A server that is up and has answered no POST.
ServerIdle ==
    /\ running = TRUE
    /\ build = "server.ts"
    /\ request = NoBody
    /\ response = NoResponse

Init ==
    /\ db \in [StoredIds -> QuizChoices]
    /\ seq = 1
    /\ routeId \in RouteIds
    /\ PlayerInit
    /\ ServerIdle
    /\ CreatorInit

\* fetch(`/api/quizzes/${id}`).then(res => res.json()).then(data => setQuiz(data)):
\* the body is stored whatever the status.
FetchResolve ==
    /\ fetchState = "pending"
    /\ LET res == GetQuizById(db, routeId)
       IN  quiz' = [loaded |-> TRUE, hasQuestions |-> res.hasQuestions,
                    questions |-> res.questions]
    /\ fetchState' = "resolved"
    /\ last' = Op("fetchResolve", NoAnswer, LobbyIdx, 0)
    /\ UNCHANGED << db, routeId, currentQuestionIdx, score, timeLeft, selectedAnswer,
                    showResult, isGameOver, intervals, timer, exiting, crashed,
                    serverVars, creatorVars >>

\* The request fails: the promise rejects and setQuiz is never called.
FetchReject ==
    /\ fetchState = "pending"
    /\ fetchState' = "rejected"
    /\ last' = Op("fetchReject", NoAnswer, LobbyIdx, 0)
    /\ UNCHANGED << db, routeId, quiz, currentQuestionIdx, score, timeLeft,
                    selectedAnswer, showResult, isGameOver, intervals, timer,
                    exiting, crashed, serverVars, creatorVars >>

\* A click on the lobby's start button.
StartQuiz ==
    /\ LobbyView
    /\ Assign(Settle(Cur, StartQuizState(Cur, quiz), quiz))
    /\ last' = Op("startQuiz", NoAnswer, currentQuestionIdx, timeLeft)
    /\ UNCHANGED << db, routeId, fetchState, quiz, serverVars, creatorVars >>

\* A click on an option button of the question view.
ClickOption ==
    /\ QuestionView
    /\ \E o \in Options :
          /\ Assign(Settle(Cur, HandleAnswer(Cur, Cur, quiz, o), quiz))
          /\ last' = Op("handleAnswer", o, currentQuestionIdx, timeLeft)
    /\ UNCHANGED << db, routeId, fetchState, quiz, serverVars, creatorVars >>

\* A click on an option button of the question view that is animating out.
ClickExitingOption ==
    /\ ExitingView
    /\ exiting.clicks < MaxStaleClicks
    /\ \E o \in Options :
          LET counted == [Cur EXCEPT !.exiting.clicks = @ + 1]
          IN  /\ Assign(Settle(counted,
                               HandleAnswer(counted, ExitClosure(counted), quiz, o),
                               quiz))
              /\ last' = Op("staleHandleAnswer", o, exiting.idx, exiting.timeLeft)
    /\ UNCHANGED << db, routeId, fetchState, quiz, serverVars, creatorVars >>

\* The exit animation of the question view ends: the view is removed.
ExitComplete ==
    /\ ExitingView
    /\ exiting' = NoExit
    /\ last' = Op("exitComplete", NoAnswer, exiting.idx, exiting.timeLeft)
    /\ UNCHANGED << db, routeId, fetchState, quiz, currentQuestionIdx, score,
                    timeLeft, selectedAnswer, showResult, isGameOver, intervals,
                    timer, crashed, serverVars, creatorVars >>

\* An interval fires: setTimeLeft(prev => prev - 1).
Tick ==
    /\ ~crashed
    /\ \E iv \in intervals :
          LET after == Settle(Cur, [Cur EXCEPT !.timeLeft = @ - 1], quiz)
          IN  /\ Assign(after)
              /\ last' = [Op("tick", NoAnswer, iv.q, timeLeft)
                            EXCEPT !.timeout = ~showResult /\ after.showResult]
    /\ UNCHANGED << db, routeId, fetchState, quiz, serverVars, creatorVars >>

\* A click on the result view's next button.
NextQuestion ==
    /\ ResultView
    /\ Assign(Settle(Cur, NextQuestionState(Cur, Cur, quiz), quiz))
    /\ last' = Op("nextQuestion", NoAnswer, currentQuestionIdx, timeLeft)
    /\ UNCHANGED << db, routeId, fetchState, quiz, serverVars, creatorVars >>

Next ==
    \/ FetchResolve
    \/ FetchReject
    \/ StartQuiz
    \/ ClickOption
    \/ ClickExitingOption
    \/ ExitComplete
    \/ Tick
    \/ NextQuestion

Spec == Init /\ [][Next]_vars

(***************************************************************************)
(* The server: the tables, the seed block and POST /api/quizzes.           *)
(* db maps the id of each row of quizzes to the rows of questions with     *)
(* that quiz_id, in insertion order; seq is the largest id quizzes has     *)
(* handed out.                                                             *)
(***************************************************************************)
\* The two versions of the startup code.
Builds == {"server.ts", "part_000"}

\* the tables of a new database file
EmptyDb == [i \in {} |-> << >>]

\* The questions of request bodies.  complete: question_text, the four
\* options and correct_option are all present; time_limit 0 stands for
\* every falsy value (0, null, absent).
CompleteDefault == [complete |-> TRUE, correct_option |-> "A", time_limit |-> 0]

CompleteNegative == [complete |-> TRUE, correct_option |-> "A", time_limit |-> -5]

Incomplete == [complete |-> FALSE, correct_option |-> "A", time_limit |-> 0]

BodyQuestionLists ==
    { << >>,
      << CompleteDefault >>,
      << CompleteNegative >>,
      << Incomplete >>,
      << CompleteDefault, CompleteNegative >>,
      << CompleteNegative, Incomplete >>,
      << Incomplete, CompleteDefault >> }

\* req.body: with title and questions, without questions, without title.
Bodies ==
    { [sent |-> TRUE, hasTitle |-> TRUE, hasQuestions |-> TRUE, questions |-> qs] :
          qs \in BodyQuestionLists }
    \cup { [sent |-> TRUE, hasTitle |-> TRUE, hasQuestions |-> FALSE, questions |-> << >>],
           [sent |-> TRUE, hasTitle |-> FALSE, hasQuestions |-> TRUE,
            questions |-> << CompleteDefault >>] }

\* The row questionStmt.run stores for q: time_limit is `q.time_limit || 20`.
QuestionRow(q) == [correct_option |-> q.correct_option, time_limit |-> OrDefault(q.time_limit)]

\* The rows the seed block inserts: no time_limit is given, the column's
\* DEFAULT 20 applies.
SeedRow(option) == [correct_option |-> option, time_limit |-> DefaultTimeLimit]

SeedQuestions ==
    << SeedRow("B"), SeedRow("C"), SeedRow("B"), SeedRow("B"), SeedRow("B"),
       SeedRow("C"), SeedRow("C"), SeedRow("B"), SeedRow("B"), SeedRow("C"),
       SeedRow("B"), SeedRow("C"), SeedRow("B"), SeedRow("C"), SeedRow("C") >>

\* INSERT INTO quizzes: title is NOT NULL; AUTOINCREMENT takes the id after
\* the largest one ever used.
InsertQuiz(st, hasTitle) ==
    IF ~hasTitle THEN [st EXCEPT !.threw = TRUE]
    ELSE [st EXCEPT !.seq = st.seq + 1,
                    !.db = [i \in DOMAIN st.db \cup {st.seq + 1} |->
                               IF i = st.seq + 1 THEN << >> ELSE st.db[i]]]

\* for (const q of questions) questionStmt.run(quizId, ...): the first
\* question with a missing NOT NULL field throws and ends the loop.
RECURSIVE InsertQuestions(_, _, _)
InsertQuestions(st, quizId, qs) ==
    IF qs = << >> THEN st
    ELSE IF ~Head(qs).complete THEN [st EXCEPT !.threw = TRUE]
    ELSE InsertQuestions([st EXCEPT !.db[quizId] = Append(@, QuestionRow(Head(qs)))],
                         quizId, Tail(qs))

\* The function handed to db.transaction: `for ... of undefined` throws.
CreateQuiz(st, body) ==
    LET quizRow == InsertQuiz(st, body.hasTitle)
    IN  IF quizRow.threw THEN quizRow
        ELSE IF ~body.hasQuestions THEN [quizRow EXCEPT !.threw = TRUE]
        ELSE InsertQuestions(quizRow, quizRow.seq, body.questions)

\* The inserts without a transaction around them.
TransactionWithoutRollback(before, after) == after

\* db.transaction(fn)(): commit, or roll back and rethrow.
Transaction(before, after) ==
    IF after.threw THEN [before EXCEPT !.threw = TRUE] ELSE after

\* try { res.json({ id: quizId, ... }) } catch { res.status(500).json(...) }
PostResponse(result) ==
    IF result.threw THEN [status |-> 500, id |-> 0]
    ELSE [status |-> 200, id |-> result.seq]

\* The seed quiz and its fifteen questions.
InsertSeed(st) ==
    LET quizRow == InsertQuiz(st, TRUE)
    IN  [quizRow EXCEPT !.db[quizRow.seq] = SeedQuestions]

\* quizCount.count
QuizCount(st) == Cardinality(DOMAIN st.db)

\* The block that runs at startup after CREATE TABLE IF NOT EXISTS.
SeedBlock(st, b) ==
    IF b = "server.ts"
    THEN IF QuizCount(st) = 0 THEN InsertSeed(st) ELSE st
    ELSE IF QuizCount(st) <= ResetThreshold
         THEN InsertSeed([st EXCEPT !.db = EmptyDb])
         ELSE st

Store == [db |-> db, seq |-> seq, threw |-> FALSE]

\* A new database file and a server that has not been started.
ServerInit ==
    /\ db = EmptyDb
    /\ seq = 0
    /\ running = FALSE
    /\ build \in Builds
    /\ request = NoBody
    /\ response = NoResponse
    /\ routeId \in {1}
    /\ PlayerInit
    /\ CreatorInit

\* `tsx server.ts`: the tables are created if missing, the seed block runs,
\* the server listens.
ServerStart ==
    /\ ~running
    /\ seq < MaxId
    /\ LET seeded == SeedBlock(Store, build)
       IN  /\ db' = seeded.db
           /\ seq' = seeded.seq
    /\ running' = TRUE
    /\ last' = Op("serverStart", NoAnswer, LobbyIdx, 0)
    /\ UNCHANGED << build, request, response >>

\* The process ends; the database file stays.
ServerStop ==
    /\ running
    /\ running' = FALSE
    /\ last' = Op("serverStop", NoAnswer, LobbyIdx, 0)
    /\ UNCHANGED << db, seq, build, request, response >>

\* app.post("/api/quizzes", ...)
PostQuiz ==
    /\ running
    /\ seq < MaxId
    /\ \E body \in Bodies :
          LET result == Transaction(Store, CreateQuiz(Store, body))
          IN  /\ db' = result.db
              /\ seq' = result.seq
              /\ request' = body
              /\ response' = PostResponse(result)
    /\ last' = Op("postQuiz", NoAnswer, LobbyIdx, 0)
    /\ UNCHANGED << running, build >>

playerVars == << routeId, fetchState, quiz, currentQuestionIdx, score, timeLeft,
                 selectedAnswer, showResult, isGameOver, intervals, timer,
                 exiting, crashed >>

ServerNext ==
    \/ ServerStart /\ UNCHANGED << playerVars, creatorVars >>
    \/ ServerStop /\ UNCHANGED << playerVars, creatorVars >>
    \/ PostQuiz /\ UNCHANGED << playerVars, creatorVars >>

ServerSpec == ServerInit /\ [][ServerNext]_vars

(***************************************************************************)
(* QuizCreator: the draft and its handlers.  An index of the questions     *)
(* array is the index of the sequence less one.                            *)
(***************************************************************************)
\* What the model's user types into a question text, and the titles.
Texts == {"", "a"}

Titles == {"", "t"}

\* The correct_option radio buttons the model's user clicks.
DraftOptions == {"A", "B"}

\* [...questions, { question_text: '', ..., correct_option: 'A', time_limit: 20 }]
AddQuestion(qs) == Append(qs, DefaultQuestion)

\* questions.filter((_, i) => i !== index)
Filter(qs, index) ==
    [k \in 1..(Len(qs) - 1) |-> IF k < index + 1 THEN qs[k] ELSE qs[k + 1]]

\* removeQuestion without the test of questions.length.
RemoveQuestionUnguarded(qs, index) == Filter(qs, index)

\* if (questions.length > 1) setQuestions(questions.filter(...))
RemoveQuestion(qs, index) ==
    IF Len(qs) > 1 THEN Filter(qs, index) ELSE qs

\* newQuestions[index] = { ...newQuestions[index], [field]: value }
UpdateQuestion(qs, index, field, value) ==
    IF field = "question_text"
    THEN [qs EXCEPT ![index + 1].question_text = value]
    ELSE [qs EXCEPT ![index + 1].correct_option = value]

\* The inputs marked `required` are filled in: the browser submits the form.
FormValid ==
    /\ title # ""
    /\ \A k \in 1..Len(draft) : draft[k].question_text # ""

\* questions.map((q, idx) => ...): the indices the rendered cards carry
Indices == 0..(Len(draft) - 1)

\* onChange={e => setTitle(e.target.value)}
SetTitle ==
    /\ \E v \in Titles : title' = v
    /\ last' = Op("setTitle", NoAnswer, LobbyIdx, 0)
    /\ UNCHANGED << draft, submitted >>

\* A click on the add button.
ClickAdd ==
    /\ Len(draft) < MaxDraft
    /\ draft' = AddQuestion(draft)
    /\ last' = Op("addQuestion", NoAnswer, LobbyIdx, 0)
    /\ UNCHANGED << title, submitted >>

\* A click on the remove button of the card with index idx.
ClickRemove ==
    /\ \E idx \in Indices :
          /\ draft' = RemoveQuestion(draft, idx)
          /\ last' = Op("removeQuestion", NoAnswer, idx, 0)
    /\ UNCHANGED << title, submitted >>

\* Typing into the question text, or a click on a correct_option radio
\* button, of the card with index idx.
EditQuestion ==
    /\ \E idx \in Indices :
          /\ \/ \E v \in Texts : draft' = UpdateQuestion(draft, idx, "question_text", v)
             \/ \E v \in DraftOptions : draft' = UpdateQuestion(draft, idx, "correct_option", v)
          /\ last' = Op("updateQuestion", NoAnswer, idx, 0)
    /\ UNCHANGED << title, submitted >>

\* handleSubmit: body: JSON.stringify({ title, description, topic, questions })
HandleSubmit ==
    /\ FormValid
    /\ submitted' = [sent |-> TRUE, title |-> title, questions |-> draft]
    /\ last' = Op("handleSubmit", NoAnswer, LobbyIdx, 0)
    /\ UNCHANGED << draft, title >>

CreatorNext ==
    \/ SetTitle /\ UNCHANGED << db, playerVars, serverVars >>
    \/ ClickAdd /\ UNCHANGED << db, playerVars, serverVars >>
    \/ ClickRemove /\ UNCHANGED << db, playerVars, serverVars >>
    \/ EditQuestion /\ UNCHANGED << db, playerVars, serverVars >>
    \/ HandleSubmit /\ UNCHANGED << db, playerVars, serverVars >>

\* The creator page of a running server.
CreatorSpecInit ==
    /\ db = [i \in {1} |-> SeedQuestions]
    /\ seq = 1
    /\ routeId \in {1}
    /\ PlayerInit
    /\ ServerIdle
    /\ CreatorInit

CreatorSpec == CreatorSpecInit /\ [][CreatorNext]_vars

(***************************************************************************)
(* The phases of the session.                                              *)
(***************************************************************************)
Phase ==
    IF crashed THEN "Crashed"
    ELSE IF currentQuestionIdx = LobbyIdx THEN "Lobby"
    ELSE IF isGameOver THEN "GameOver"
    ELSE IF showResult THEN "Result"
    ELSE "Question"

\* The number of questions of the loaded quiz (0 when it has no questions array).
NumQuestions == IF quiz.loaded /\ quiz.hasQuestions THEN Len(quiz.questions) ELSE 0

\* Every question of the loaded quiz has a positive time_limit.
PositiveTimeLimits ==
    /\ quiz.loaded /\ quiz.hasQuestions
    /\ \A i \in 1..Len(quiz.questions) : quiz.questions[i].time_limit > 0

(***************************************************************************)
(* C1.  At most one submitAnswer takes effect per question: a handleAnswer *)
(* invoked for a question that already has its answer (showResult is true) *)
(* leaves score and selectedAnswer unchanged.                              *)
(***************************************************************************)
C1_SecondSubmitHasNoEffect ==
    [][ (/\ PositiveTimeLimits
         /\ showResult
         /\ last'.op \in {"handleAnswer", "staleHandleAnswer"})
            => (score' = score /\ selectedAnswer' = selectedAnswer) ]_vars

(***************************************************************************)
(* C2.  start() on a loaded quiz with zero questions is a no-op: the       *)
(* session stays in Lobby with currentIndex = -1 and timeRemaining, score  *)
(* and selectedAnswer as they were, and currentIndex never leaves the      *)
(* range of the existing questions.                                        *)
(***************************************************************************)
C2_StartOnEmptyQuizIsNoOp ==
    (quiz.loaded /\ quiz.hasQuestions /\ Len(quiz.questions) = 0)
        => /\ Phase = "Lobby"
           /\ currentQuestionIdx = LobbyIdx
           /\ timeLeft = 0
           /\ score = 0
           /\ selectedAnswer = NoAnswer

(***************************************************************************)
(* C3.  When GET /api/quizzes/:id does not answer with the quiz (404), the *)
(* session never leaves the loading state: no Lobby is offered and no      *)
(* start, tick, submitAnswer or nextQuestion takes effect.                 *)
(***************************************************************************)
C3_NoLobbyWithoutLoadedQuiz ==
    (GetQuizById(db, routeId).status # 200)
        => /\ Loading
           /\ ~LobbyView
           /\ currentQuestionIdx = LobbyIdx
           /\ last.op \in {"init", "fetchResolve", "fetchReject"}

(***************************************************************************)
(* C4.  score is a non-negative integer in every reachable state, no step  *)
(* decreases it, and it changes only in a submitAnswer whose option is the *)
(* current question's correct_option.                                      *)
(***************************************************************************)
C4_ScoreMonotone ==
    [][ /\ score \in Nat
        /\ score' \in Nat
        /\ score' >= score
        /\ (score' # score)
              => /\ last'.op \in {"handleAnswer", "staleHandleAnswer"}
                 /\ IsCorrect(quiz, currentQuestionIdx, last'.option) ]_vars

C4_Witness ==
    /\ last.op = "handleAnswer"
    /\ IsCorrect(quiz, currentQuestionIdx, last.option)
    /\ currentQuestionIdx = 1
    /\ score > 1500

(***************************************************************************)
(* C5.  For a question with time_limit L > 0 and timeRemaining t with      *)
(* 0 <= t <= L when the answer is submitted, a correct submitAnswer adds   *)
(* the integer nearest to 1000 * t / L, plus 500, to score: a value in     *)
(* 500..1500, and 1500 when t = L.  An incorrect option and a no-answer    *)
(* submission add 0.  With L = 20 and t = 15 the points are 1250.          *)
(***************************************************************************)
\* d is 500 more than the integer nearest to 1000 * t / L (L > 0).
IsScoreFor(d, t, L) ==
    /\ 0 - L < 2 * L * (d - 500) - 2000 * t
    /\ 2 * L * (d - 500) - 2000 * t <= L

C5_ScoringFormula ==
    [][ LET L == TimeLimitAt(quiz, currentQuestionIdx)
            d == score' - score
        IN  (/\ last'.op \in {"handleAnswer", "staleHandleAnswer", "tick"}
             /\ HasQuestion(quiz, currentQuestionIdx)
             /\ L > 0 /\ 0 <= timeLeft /\ timeLeft <= L)
            => IF last'.op # "tick"
                  /\ last'.option = QuestionAt(quiz, currentQuestionIdx).correct_option
               THEN /\ IsScoreFor(d, timeLeft, L)
                    /\ d \in 500..1500
                    /\ (timeLeft = L => d = 1500)
                    /\ Points(15, 20) = 1250
               ELSE d = 0 ]_vars

\* A correct answer with 2 of 3 seconds left: 1000 * 2 / 3 rounds up to 667.
C5_Witness ==
    /\ last.op = "handleAnswer"
    /\ HasQuestion(quiz, currentQuestionIdx)
    /\ last.option = QuestionAt(quiz, currentQuestionIdx).correct_option
    /\ TimeLimitAt(quiz, currentQuestionIdx) = 3
    /\ timeLeft = 2
    /\ score = 1167

(***************************************************************************)
(* C6.  In Question phase with the countdown running, if the ticks go on   *)
(* and the player never submits, timeRemaining reaches 0 and the session   *)
(* then moves to Result with selectedAnswer = none and score unchanged,    *)
(* without player input: the tick that reaches 0 is the timeout, and it    *)
(* credits nothing.                                                        *)
(***************************************************************************)
\* The session of a player who starts the quiz and acknowledges the results
\* but never clicks an option; an interval keeps firing while it is set.
NextNoSubmit ==
    \/ FetchResolve
    \/ FetchReject
    \/ StartQuiz
    \/ ExitComplete
    \/ Tick
    \/ NextQuestion

TimeoutSpec == Init /\ [][NextNoSubmit]_vars /\ WF_vars(Tick)

C6_TimeoutSubmitsNoAnswer ==
    /\ [][ (last'.op = "tick" /\ timeLeft' = 0 /\ Phase = "Question")
              => /\ last'.timeout
                 /\ Phase' = "Result"
                 /\ selectedAnswer' = NoAnswer
                 /\ score' = score ]_vars
    /\ \A i \in 0..(MaxQuestions - 1) :
          (Phase = "Question" /\ currentQuestionIdx = i /\ timeLeft > 0)
             ~> (/\ Phase = "Result"
                 /\ currentQuestionIdx = i
                 /\ last.op = "tick" /\ last.timeout
                 /\ timeLeft = 0
                 /\ selectedAnswer = NoAnswer
                 /\ score = 0)

C6_Witness ==
    /\ last.op = "tick"
    /\ last.timeout
    /\ Phase = "Result"
    /\ timeLeft = 0
    /\ selectedAnswer = NoAnswer
    /\ currentQuestionIdx = 1
    /\ TimeLimitAt(quiz, 1) = 3

(***************************************************************************)
(* C7.  On a quiz whose time_limits are positive, in Question and Result   *)
(* phase 0 <= timeRemaining <= time_limit of the current question; a tick  *)
(* lowers timeRemaining by exactly 1 and never takes it below 0.           *)
(***************************************************************************)
C7_TimeRemainingInRange ==
    [][ PositiveTimeLimits
          => /\ (Phase' \in {"Question", "Result"})
                   => /\ 0 <= timeLeft'
                      /\ timeLeft' <= TimeLimitAt(quiz, currentQuestionIdx')
             /\ (last'.op = "tick")
                   => /\ timeLeft' = timeLeft - 1
                      /\ timeLeft' >= 0 ]_vars

C7_Witness ==
    /\ PositiveTimeLimits
    /\ last.op = "tick"
    /\ timeLeft = 0
    /\ Phase = "Result"

(***************************************************************************)
(* C8.  The countdown is cancelled when the phase leaves Question: at most *)
(* one interval is set at any time, an interval is set only in Question    *)
(* phase and only for the current question, so no tick changes             *)
(* timeRemaining in Lobby, Result or GameOver, and the interval that       *)
(* decrements the timeRemaining of a question was set for that question.   *)
(***************************************************************************)
C8_OneTimerOfTheCurrentQuestion ==
    [][ /\ Cardinality(intervals') <= 1
        /\ \A iv \in intervals' :
              Phase' = "Question" /\ iv.q = currentQuestionIdx'
        /\ (timeLeft' # timeLeft /\ last'.op \notin {"startQuiz", "nextQuestion"})
              => /\ last'.op = "tick"
                 /\ Phase = "Question"
                 /\ last'.q = currentQuestionIdx ]_vars

C8_Witness ==
    /\ last.op = "tick"
    /\ last.q = 1
    /\ currentQuestionIdx = 1
    /\ Phase = "Question"
    /\ Cardinality(intervals) = 1

(***************************************************************************)
(* C9.  start() in Lobby on a loaded quiz with N >= 1 questions yields     *)
(* currentIndex = 0, phase = Question, timeRemaining =                     *)
(* questions[0].time_limit, score = 0 and selectedAnswer = none.           *)
(***************************************************************************)
C9_StartLandsOnFirstQuestion ==
    (last.op = "startQuiz" /\ NumQuestions >= 1)
        => /\ currentQuestionIdx = 0
           /\ Phase = "Question"
           /\ timeLeft = QuestionAt(quiz, 0).time_limit
           /\ score = 0
           /\ selectedAnswer = NoAnswer

C9_Witness ==
    /\ last.op = "startQuiz"
    /\ NumQuestions = 2
    /\ timeLeft = 3
    /\ Phase = "Question"

(***************************************************************************)
(* C10.  nextQuestion() in Result phase with currentIndex < N-1 increments *)
(* currentIndex by exactly 1, sets timeRemaining to the new question's     *)
(* time_limit, clears selectedAnswer, sets phase = Question and leaves     *)
(* score unchanged; over a session currentIndex never decreases and never  *)
(* skips an index.                                                         *)
(***************************************************************************)
C10_NextQuestionAdvancesByOne ==
    [][ /\ currentQuestionIdx' \in {currentQuestionIdx, currentQuestionIdx + 1}
        /\ (last'.op = "nextQuestion" /\ Phase = "Result"
              /\ currentQuestionIdx < NumQuestions - 1)
              => /\ currentQuestionIdx' = currentQuestionIdx + 1
                 /\ timeLeft' = QuestionAt(quiz, currentQuestionIdx + 1).time_limit
                 /\ selectedAnswer' = NoAnswer
                 /\ Phase' = "Question"
                 /\ score' = score ]_vars

C10_Witness ==
    /\ last.op = "nextQuestion"
    /\ currentQuestionIdx = 1
    /\ Phase = "Question"
    /\ score > 0
    /\ selectedAnswer = NoAnswer

(***************************************************************************)
(* C11.  nextQuestion() in the Result phase of the last question moves to  *)
(* GameOver, and GameOver is terminal: there no start button, option       *)
(* button, next button or interval is left, and no step changes phase,     *)
(* currentIndex or score.                                                  *)
(***************************************************************************)
C11_GameOverIsTerminal ==
    /\ [][ /\ (last'.op = "nextQuestion" /\ Phase = "Result"
                 /\ currentQuestionIdx = NumQuestions - 1)
              => /\ Phase' = "GameOver"
                 /\ currentQuestionIdx' = currentQuestionIdx
                 /\ score' = score
           /\ (Phase = "GameOver")
              => /\ Phase' = "GameOver"
                 /\ currentQuestionIdx' = currentQuestionIdx
                 /\ score' = score ]_vars
    /\ [](Phase = "GameOver"
            => /\ GameOverView
               /\ ~LobbyView /\ ~QuestionView /\ ~ResultView /\ ~ExitingView
               /\ intervals = {}
               /\ ~ENABLED Next)

C11_Witness ==
    /\ Phase = "GameOver"
    /\ last.op = "nextQuestion"
    /\ currentQuestionIdx = 1
    /\ NumQuestions = 2
    /\ score > 0

(***************************************************************************)
(* C12.  An operation invoked outside its valid phase leaves phase,        *)
(* currentIndex, timeRemaining, score and selectedAnswer unchanged:        *)
(* startQuiz when the phase is not Lobby, nextQuestion when it is not      *)
(* Result, handleAnswer when it is not Question.                           *)
(***************************************************************************)
SessionUnchanged ==
    /\ Phase' = Phase
    /\ currentQuestionIdx' = currentQuestionIdx
    /\ timeLeft' = timeLeft
    /\ score' = score
    /\ selectedAnswer' = selectedAnswer

C12_OutOfPhaseIsNoOp ==
    [][ PositiveTimeLimits
          => /\ (last'.op = "startQuiz" /\ Phase # "Lobby") => SessionUnchanged
             /\ (last'.op = "nextQuestion" /\ Phase # "Result") => SessionUnchanged
             /\ (last'.op \in {"handleAnswer", "staleHandleAnswer"}
                   /\ Phase # "Question") => SessionUnchanged ]_vars

(***************************************************************************)
(* C15.  In the Result phase of a correctly answered question the points   *)
(* shown, computed from the timeRemaining of that render, are the points   *)
(* the submission added to score, and timeRemaining does not change while  *)
(* the session stays in Result.                                            *)
(***************************************************************************)
\* "+ {Math.round(1000 * (timeLeft / (currentQuestion.time_limit || 20))) + 500} points"
ShownPoints == Points(timeLeft, OrDefault(TimeLimitAt(quiz, currentQuestionIdx)))

\* selectedAnswer === currentQuestion.correct_option
ShownCorrect == IsCorrect(quiz, currentQuestionIdx, selectedAnswer)

C15_ShownPointsAreAwardedPoints ==
    [][ /\ (/\ last'.op \in {"handleAnswer", "staleHandleAnswer"}
            /\ Phase' = "Result"
            /\ ShownCorrect')
              => score' - score = ShownPoints'
        /\ (Phase = "Result" /\ Phase' = "Result")
              => /\ timeLeft' = timeLeft
                 /\ ShownPoints' = ShownPoints ]_vars

C15_Witness ==
    /\ ResultView
    /\ ShownCorrect
    /\ currentQuestionIdx = 1
    /\ TimeLimitAt(quiz, 1) = 3
    /\ timeLeft = 1
    /\ ShownPoints = 833
    /\ last.op = "exitComplete"

(***************************************************************************)
(* C17.  A session on a quiz with N >= 1 questions and positive            *)
(* time_limits that has reached GameOver has a final score of at most      *)
(* 1500 * N.                                                               *)
(***************************************************************************)
C17_FinalScoreAtMost1500PerQuestion ==
    (Phase = "GameOver" /\ PositiveTimeLimits /\ NumQuestions >= 1)
        => score <= 1500 * NumQuestions

\* Every row of the questions table.
AllTimeLimitsPositive ==
    \A i \in DOMAIN db : \A k \in 1..Len(db[i]) : db[i][k].time_limit > 0

(***************************************************************************)
(* C13.  Every question in the store, seeded or inserted by POST           *)
(* /api/quizzes with any body, has a positive integer time_limit.          *)
(***************************************************************************)
C13_StoredTimeLimitsPositive == AllTimeLimitsPositive

\* The body is one the transaction accepts.
Acceptable(body) ==
    /\ body.hasTitle
    /\ body.hasQuestions
    /\ \A k \in 1..Len(body.questions) : body.questions[k].complete

(***************************************************************************)
(* C14.  POST /api/quizzes is atomic: either the response carries the new  *)
(* id and the store has gained exactly the quiz row with that id and one   *)
(* row for each submitted question, in order, or an insert failed, the     *)
(* response is the 500 error and the store is as it was.                   *)
(***************************************************************************)
C14_QuizCreationIsAtomic ==
    [][ last'.op = "postQuiz"
          => IF Acceptable(request')
             THEN /\ response'.status = 200
                  /\ response'.id \notin DOMAIN db
                  /\ DOMAIN db' = DOMAIN db \cup {response'.id}
                  /\ \A i \in DOMAIN db : db'[i] = db[i]
                  /\ Len(db'[response'.id]) = Len(request'.questions)
                  /\ \A k \in 1..Len(request'.questions) :
                        db'[response'.id][k] = QuestionRow(request'.questions[k])
             ELSE /\ response'.status = 500
                  /\ db' = db
                  /\ seq' = seq ]_vars

\* A request whose second question fails after the first was inserted.
C14_Witness ==
    /\ last.op = "postQuiz"
    /\ request.questions = << CompleteNegative, Incomplete >>
    /\ response.status = 500
    /\ DOMAIN db = {1}

(***************************************************************************)
(* C16.  The startup seeding step leaves every stored quiz and question    *)
(* in place, and inserts the seed quiz only when quizzes is empty.         *)
(***************************************************************************)
C16_RestartKeepsTheStore ==
    [][ last'.op = "serverStart"
          => /\ \A i \in DOMAIN db : i \in DOMAIN db' /\ db'[i] = db[i]
             /\ (DOMAIN db # {}) => db' = db ]_vars

(***************************************************************************)
(* C18.  The draft of the quiz creator always holds at least one question: *)
(* removeQuestion on a single-question draft changes nothing, on a longer  *)
(* draft it removes exactly the question at the given index and keeps the  *)
(* order of the others; every submitted body has at least one question.    *)
(***************************************************************************)
C18_DraftNeverEmpty ==
    /\ [](Len(draft) >= 1)
    /\ [](submitted.sent => Len(submitted.questions) >= 1)
    /\ [][ last'.op = "removeQuestion"
             => IF Len(draft) = 1 THEN draft' = draft
                ELSE /\ Len(draft') = Len(draft) - 1
                     /\ \A k \in 1..Len(draft') :
                           draft'[k] = IF k <= last'.q THEN draft[k] ELSE draft[k + 1] ]_vars

\* The first of three distinguishable questions has just been removed, after
\* an earlier draft was submitted.
C18_Witness ==
    /\ last.op = "removeQuestion"
    /\ last.q = 0
    /\ Len(draft) = 2
    /\ draft[1].question_text = "a"
    /\ draft[2].correct_option = "B"
    /\ submitted.sent
    /\ Len(submitted.questions) = 1

=============================================================================
